---- MODULE Spec2Model ----
(***************************************************************************)
(* Recurrence expansion of ical2org.py: the three event iterators          *)
(* (EventSingleIter, EventRecurDaysIter, EventRecurYearlyIter), the         *)
(* dispatcher generate_event_iterator and the date helpers they use.        *)
(*                                                                         *)
(* Time is counted in whole hours.  A datetime is the record               *)
(*   [naive |-> wall-clock hours since ordinal day 0, 00:00,                *)
(*    off   |-> the UTC offset (hours) of the tzinfo instance it carries,   *)
(*    tz    |-> the zone that tzinfo belongs to]                            *)
(* which is what a pytz-aware datetime is: wall-clock fields plus one       *)
(* fixed-offset tzinfo of its zone.  Aware datetimes compare by             *)
(* naive - off.  Ordinal days are Python's proleptic Gregorian ordinals.    *)
(***************************************************************************)
EXTENDS Integers, Sequences, FiniteSets, TLC

(***************************************************************************)
(* datetime.date arithmetic                                                *)
(***************************************************************************)
IsLeap(y) == (y % 4 = 0) /\ ((y % 100 # 0) \/ (y % 400 = 0))

DaysInMonth(y, m) ==
    IF m = 2 THEN (IF IsLeap(y) THEN 29 ELSE 28)
    ELSE IF m \in {4, 6, 9, 11} THEN 30 ELSE 31

DaysBeforeYear(y) ==
    (y - 1) * 365 + ((y - 1) \div 4) - ((y - 1) \div 100) + ((y - 1) \div 400)

RECURSIVE DaysBeforeMonth(_, _)
DaysBeforeMonth(y, m) ==
    IF m = 1 THEN 0 ELSE DaysBeforeMonth(y, m - 1) + DaysInMonth(y, m - 1)

\* date(y, m, d).toordinal()
Ymd2Ord(y, m, d) == DaysBeforeYear(y) + DaysBeforeMonth(y, m) + d

\* date.fromordinal(n).year / .month / .day
OrdYear(n) ==
    LET g == ((n * 400) \div 146097) + 1
    IN  CHOOSE y \in (g - 1)..(g + 1) :
            DaysBeforeYear(y) < n /\ n <= DaysBeforeYear(y + 1)

OrdMonth(n) ==
    LET y == OrdYear(n)
        r == n - DaysBeforeYear(y)
    IN  CHOOSE m \in 1..12 :
            DaysBeforeMonth(y, m) < r /\ r <= DaysBeforeMonth(y, m) + DaysInMonth(y, m)

OrdDay(n) ==
    LET y == OrdYear(n)
    IN  n - DaysBeforeYear(y) - DaysBeforeMonth(y, OrdMonth(n))

\* date.weekday(): Monday is 0, Sunday is 6
Weekday(n) == (n + 6) % 7

(***************************************************************************)
(* Time zones (pytz).  "UTC" is pytz.utc, LOCAL_TZ is Europe/Madrid         *)
(* (CET +1, CEST +2 between the last Sundays of March and October, both     *)
(* changes at 01:00 UTC), "EST" is the fixed zone five hours west of UTC.   *)
(***************************************************************************)
LOCAL_TZ == "Europe/Madrid"

Zones == {"UTC", LOCAL_TZ, "EST"}

LastSunday(y, m) ==
    LET last == Ymd2Ord(y, m, 31)
    IN  last - ((Weekday(last) + 1) % 7)

DstStartUtc(y) == LastSunday(y, 3) * 24 + 1
DstEndUtc(y) == LastSunday(y, 10) * 24 + 1

\* the offset a zone has at a UTC instant (tzinfo.fromutc / normalize)
UtcOffsetAt(tz, u) ==
    IF tz = "UTC" THEN 0
    ELSE IF tz = "EST" THEN -5
    ELSE LET y == OrdYear(u \div 24)
         IN  IF DstStartUtc(y) <= u /\ u < DstEndUtc(y) THEN 2 ELSE 1

\* the offset tz.localize(naive) picks (is_dst=False: a wall-clock time that
\* does not exist or exists twice gets the standard offset)
LocalOffsetAt(tz, w) ==
    IF tz = "UTC" THEN 0
    ELSE IF tz = "EST" THEN -5
    ELSE LET y == OrdYear(w \div 24)
         IN  IF DstStartUtc(y) + 2 <= w /\ w < DstEndUtc(y) + 1 THEN 2 ELSE 1

Utc(dt) == dt.naive - dt.off

\* dt.astimezone(tz), also tzinfo.normalize(dt) with tz = dt.tz
AsTimezone(dt, tz) ==
    LET o == UtcOffsetAt(tz, Utc(dt))
    IN  [naive |-> Utc(dt) + o, off |-> o, tz |-> tz]

Normalize(dt) == AsTimezone(dt, dt.tz)

\* tz.localize(naive)
Localize(tz, w) == [naive |-> w, off |-> LocalOffsetAt(tz, w), tz |-> tz]

\* dt + timedelta (hours): the wall clock moves, the tzinfo stays
PlusHours(dt, h) == [dt EXCEPT !.naive = dt.naive + h]

ToOrdinal(dt) == dt.naive \div 24
HourOf(dt) == dt.naive % 24
YearOf(dt) == OrdYear(ToOrdinal(dt))
MonthOf(dt) == OrdMonth(ToOrdinal(dt))
DayOf(dt) == OrdDay(ToOrdinal(dt))

\* comparisons of aware datetimes
DtLt(a, b) == Utc(a) < Utc(b)
DtLe(a, b) == Utc(a) <= Utc(b)
DtMin(a, b) == IF DtLt(b, a) THEN b ELSE a

\* datetime(y, m, d, h, tzinfo=utc)
UtcDatetime(y, m, d, h) ==
    [naive |-> Ymd2Ord(y, m, d) * 24 + h, off |-> 0, tz |-> "UTC"]

\* a datetime with the given wall clock in zone tz
ZonedDatetime(y, m, d, h, tz) == Localize(tz, Ymd2Ord(y, m, d) * 24 + h)

(***************************************************************************)
(* Calendar properties read by the iterators.  A DTSTART/DTEND/UNTIL value  *)
(* is a date ([isdate |-> TRUE], naive = midnight of that day) or a         *)
(* datetime.  A rule field that is absent from RRULE is None.               *)
(***************************************************************************)
None == -1

PropDate(y, m, d) ==
    [isdate |-> TRUE, naive |-> Ymd2Ord(y, m, d) * 24, off |-> 0, tz |-> "UTC"]

PropDatetime(dt) ==
    [isdate |-> FALSE, naive |-> dt.naive, off |-> dt.off, tz |-> dt.tz]

NoProp == [isdate |-> FALSE, naive |-> None, off |-> 0, tz |-> "absent"]

NoRule ==
    [present |-> FALSE, FREQ |-> "", INTERVAL |-> None, COUNT |-> None,
     UNTIL |-> NoProp, BYMONTH |-> None, BYMONTHDAY |-> None]

get_datetime(v) ==
    IF v.isdate
    THEN AsTimezone([naive |-> v.naive, off |-> 0, tz |-> "UTC"], LOCAL_TZ)
    ELSE [naive |-> v.naive, off |-> v.off, tz |-> v.tz]

\* add_delta_dst adding elapsed time: dt + delta, normalized
add_delta_dst_elapsed(dt, delta) == Normalize(PlusHours(dt, delta))

\* delta is a timedelta of whole hours
add_delta_dst(dt, delta) == Localize(dt.tz, dt.naive + delta)

\* advance_just_before adding delta_ord days instead of delta_ord steps
advance_just_before_days(start_dt, timeframe_start, delta_days) ==
    LET delta_ord ==
            (ToOrdinal(timeframe_start) - ToOrdinal(start_dt) - 1) \div delta_days
    IN  [dt |-> add_delta_dst(start_dt, delta_ord * 24),
         counts |-> delta_ord]

\* advance_just_before without the "- 1" in the difference of the ordinals
advance_just_before_exact(start_dt, timeframe_start, delta_days) ==
    LET delta_ord ==
            (ToOrdinal(timeframe_start) - ToOrdinal(start_dt)) \div delta_days
    IN  [dt |-> add_delta_dst(start_dt, delta_days * delta_ord * 24),
         counts |-> delta_ord]

\* Python 2: "/" on two ints is floor division, so floor() changes nothing
advance_just_before(start_dt, timeframe_start, delta_days) ==
    LET delta_ord ==
            (ToOrdinal(timeframe_start) - ToOrdinal(start_dt) - 1) \div delta_days
    IN  [dt |-> add_delta_dst(start_dt, delta_days * delta_ord * 24),
         counts |-> delta_ord]

\* an occurrence that is flagged as recurring whatever iterator returns it
Occurrence_recurring(s, e, r) == [start |-> s, end |-> e, rec |-> 1]

\* an occurrence as the iterators return it
Occurrence(s, e, r) == [start |-> s, end |-> e, rec |-> r]

(***************************************************************************)
(* EventSingleIter                                                         *)
(***************************************************************************)
\* EventSingleIter with the timeframe closed at both ends
EventSingleIter_closed(comp, timeframe_start, timeframe_end) ==
    LET ev_start == get_datetime(comp.DTSTART)
        ev_end == get_datetime(comp.DTEND)
    IN  [cls |-> "single",
         raised |-> FALSE,
         ev_start |-> ev_start,
         ev_end |-> ev_end,
         duration |-> Utc(ev_end) - Utc(ev_start),
         result |->
            IF DtLe(ev_start, timeframe_end) /\ DtLe(timeframe_start, ev_end)
            THEN <<Occurrence(ev_start, ev_end, 0)>>
            ELSE <<>>]

EventSingleIter(comp, timeframe_start, timeframe_end) ==
    LET ev_start == get_datetime(comp.DTSTART)
        ev_end == get_datetime(comp.DTEND)
    IN  [cls |-> "single",
         raised |-> FALSE,
         ev_start |-> ev_start,
         ev_end |-> ev_end,
         duration |-> Utc(ev_end) - Utc(ev_start),
         result |->
            IF DtLt(ev_start, timeframe_end) /\ DtLt(timeframe_start, ev_end)
            THEN <<Occurrence(ev_start, ev_end, 0)>>
            ELSE <<>>]

(***************************************************************************)
(* EventRecurDaysIter                                                      *)
(***************************************************************************)
\* the iterator without its loop up to the timeframe
AdvanceToTimeframe_none(current, timeframe_start, delta) == current

\* while self.current < timeframe_start: self.current = add_delta_dst(...)
RECURSIVE AdvanceToTimeframe(_, _, _)
AdvanceToTimeframe(current, timeframe_start, delta) ==
    IF DtLt(current, timeframe_start)
    THEN AdvanceToTimeframe(add_delta_dst(current, delta), timeframe_start, delta)
    ELSE current

EventRecurDaysIter(days, comp, timeframe_start, timeframe_end) ==
    LET rr == comp.RRULE
        ev_start == get_datetime(comp.DTSTART)
        ev_end == get_datetime(comp.DTEND)
        is_count == rr.COUNT # None
        count0 == IF is_count THEN rr.COUNT ELSE 0
        delta_days == IF rr.INTERVAL # None THEN days * rr.INTERVAL ELSE days
        delta == delta_days * 24
        until0 == IF rr.UNTIL # NoProp
                  THEN AsTimezone(get_datetime(rr.UNTIL), "UTC")
                  ELSE timeframe_end
        base == [cls |-> "days", raised |-> FALSE, ev_start |-> ev_start,
                 ev_end |-> ev_end, duration |-> Utc(ev_end) - Utc(ev_start),
                 is_count |-> is_count, count |-> count0, delta |-> delta,
                 until_utc |-> until0, current |-> ev_start]
    IN  IF rr.UNTIL # NoProp /\ is_count
        THEN [cls |-> "days", raised |-> TRUE]
        ELSE IF DtLt(until0, timeframe_start)
        THEN [base EXCEPT !.current = PlusHours(until0, delta)]
        ELSE LET until1 == DtMin(until0, timeframe_end)
             IN  IF DtLt(ev_start, timeframe_start)
                 THEN LET adv == advance_just_before(ev_start, timeframe_start,
                                                     delta_days)
                          count1 == IF is_count THEN count0 - adv.counts ELSE 0
                      IN  IF is_count /\ count1 < 1
                          THEN [base EXCEPT !.until_utc = until1,
                                            !.current = adv.dt,
                                            !.count = count1]
                          ELSE [base EXCEPT !.until_utc = until1,
                                            !.current = AdvanceToTimeframe(
                                                adv.dt, timeframe_start, delta),
                                            !.count = count1]
                 ELSE [base EXCEPT !.until_utc = until1]

(***************************************************************************)
(* EventRecurYearlyIter                                                    *)
(***************************************************************************)
\* range(a, b)
RECURSIVE Range(_, _)
Range(a, b) == IF a >= b THEN <<>> ELSE <<a>> \o Range(a + 1, b)

\* del years[count:] for count >= 0
DelFrom(years, count) ==
    IF count >= Len(years) THEN years ELSE SubSeq(years, 1, count)

EventRecurYearlyIter(comp, timeframe_start, timeframe_end) ==
    LET rr == comp.RRULE
        ev_start == get_datetime(comp.DTSTART)
        ev_end == get_datetime(comp.DTEND)
        is_until == rr.UNTIL # NoProp
        end == IF is_until
               THEN DtMin(timeframe_end, AsTimezone(get_datetime(rr.UNTIL), "UTC"))
               ELSE timeframe_end
        bymonth == IF rr.BYMONTH # None THEN rr.BYMONTH ELSE MonthOf(ev_start)
        bymonthday == IF rr.BYMONTHDAY # None THEN rr.BYMONTHDAY ELSE DayOf(ev_start)
        years == IF rr.COUNT # None
                 THEN DelFrom(Range(YearOf(ev_start), YearOf(end) + 1), rr.COUNT)
                 ELSE Range(YearOf(timeframe_start), YearOf(end) + 1)
        base == [cls |-> "yearly", raised |-> FALSE, ev_start |-> ev_start,
                 ev_end |-> ev_end, start |-> timeframe_start, end |-> end,
                 is_until |-> is_until, bymonth |-> bymonth,
                 bymonthday |-> bymonthday,
                 duration |-> Utc(ev_end) - Utc(ev_start),
                 years |-> years, i |-> 0, n |-> Len(years)]
    IN  IF DtLt(end, timeframe_start)
        THEN [base EXCEPT !.years = <<>>, !.n = 0]
        ELSE IF rr.COUNT # None /\ is_until
        THEN [cls |-> "yearly", raised |-> TRUE]
        ELSE base

\* dt.replace(year=y, month=m, day=d): ValueError when the day does not exist
ReplaceOk(y, m, d) == d <= DaysInMonth(y, m)
Replace(dt, y, m, d) == [dt EXCEPT !.naive = Ymd2Ord(y, m, d) * 24 + HourOf(dt)]

\* One call of EventRecurYearlyIter.next on the iterator it, with its
\* recursive calls: [it, ret, value], ret one of "value", "stop", "raise".
RECURSIVE YearlyNextCall(_)
YearlyNextCall(it) ==
    IF it.i >= it.n
    THEN [it |-> it, ret |-> "stop", value |-> <<>>]
    ELSE LET y == it.years[it.i + 1]
             m0 == MonthOf(it.ev_start)
             d0 == DayOf(it.ev_start)
         IN  IF ~ReplaceOk(y, m0, d0)
                \/ ~ReplaceOk(y, it.bymonth, d0)
                \/ ~ReplaceOk(y, it.bymonth, it.bymonthday)
             THEN [it |-> it, ret |-> "raise", value |-> <<>>]
             ELSE LET event_aux == Replace(it.ev_start, y, it.bymonth, it.bymonthday)
                      it1 == [it EXCEPT !.i = it.i + 1]
                  IN  IF DtLt(it.end, event_aux)
                      THEN [it |-> it1, ret |-> "stop", value |-> <<>>]
                      ELSE IF DtLt(event_aux, it.start)
                      THEN YearlyNextCall(it1)
                      ELSE [it |-> it1, ret |-> "value",
                            value |-> <<Occurrence(
                                event_aux,
                                Normalize(PlusHours(event_aux, it.duration)),
                                1)>>]

(***************************************************************************)
(* The program: one calendar component expanded over one timeframe.         *)
(*   pc = "new"     generate_event_iterator has not run yet                 *)
(*   pc = "iter"    the iterator is built and is being consumed             *)
(*   pc = "stopped" the last next() raised StopIteration                    *)
(*   pc = "raised"  an exception left the expansion of this component       *)
(* out is the sequence of occurrences the iterator has returned.            *)
(***************************************************************************)
VARIABLES comp, timeframe_start, timeframe_end, pc, it, out

vars == <<comp, timeframe_start, timeframe_end, pc, it, out>>

NoIter == [cls |-> "none", raised |-> FALSE]

\* 'MONTHLY': [] -- an empty list
EmptyList == [cls |-> "list", raised |-> FALSE]

\* generate_event_iterator for a VEVENT.  With an RRULE the dict literal
\* builds the WEEKLY, the DAILY and the YEARLY iterator, in that order,
\* before FREQ selects one of its values.
generate_event_iterator ==
    /\ pc = "new"
    /\ IF comp.RRULE.present
       THEN LET weekly == EventRecurDaysIter(7, comp, timeframe_start, timeframe_end)
                daily == EventRecurDaysIter(1, comp, timeframe_start, timeframe_end)
                yearly == EventRecurYearlyIter(comp, timeframe_start, timeframe_end)
            IN  IF weekly.raised \/ daily.raised \/ yearly.raised
                THEN /\ pc' = "raised"
                     /\ it' = NoIter
                ELSE /\ pc' = "iter"
                     /\ it' = CASE comp.RRULE.FREQ = "WEEKLY" -> weekly
                                [] comp.RRULE.FREQ = "DAILY" -> daily
                                [] comp.RRULE.FREQ = "MONTHLY" -> EmptyList
                                [] comp.RRULE.FREQ = "YEARLY" -> yearly
       ELSE /\ pc' = "iter"
            /\ it' = EventSingleIter(comp, timeframe_start, timeframe_end)
    /\ UNCHANGED <<comp, timeframe_start, timeframe_end, out>>

Iterating == pc \in {"iter", "stopped"}

\* EventSingleIter.next
SingleNext ==
    /\ Iterating
    /\ it.cls = "single"
    /\ IF it.result # <<>>
       THEN /\ out' = Append(out, it.result[1])
            /\ it' = [it EXCEPT !.result = <<>>]
            /\ pc' = "iter"
       ELSE /\ pc' = "stopped"
            /\ UNCHANGED <<it, out>>
    /\ UNCHANGED <<comp, timeframe_start, timeframe_end>>

\* EventRecurDaysIter.next -> next_until
next_until ==
    /\ Iterating
    /\ it.cls = "days"
    /\ ~it.is_count
    /\ IF DtLt(it.until_utc, it.current)
       THEN /\ pc' = "stopped"
            /\ UNCHANGED <<it, out>>
       ELSE /\ out' = Append(out, Occurrence(
                        it.current,
                        Normalize(PlusHours(it.current, it.duration)),
                        1))
            /\ it' = [it EXCEPT !.current = add_delta_dst(it.current, it.delta)]
            /\ pc' = "iter"
    /\ UNCHANGED <<comp, timeframe_start, timeframe_end>>

\* EventRecurDaysIter.next -> next_count
next_count ==
    /\ Iterating
    /\ it.cls = "days"
    /\ it.is_count
    /\ IF it.count < 1
       THEN /\ pc' = "stopped"
            /\ UNCHANGED <<it, out>>
       ELSE /\ out' = Append(out, Occurrence(
                        it.current,
                        Normalize(PlusHours(it.current, it.duration)),
                        1))
            /\ it' = [it EXCEPT !.count = it.count - 1,
                                !.current = add_delta_dst(it.current, it.delta)]
            /\ pc' = "iter"
    /\ UNCHANGED <<comp, timeframe_start, timeframe_end>>

\* EventRecurYearlyIter.next
YearlyNext ==
    /\ Iterating
    /\ it.cls = "yearly"
    /\ LET r == YearlyNextCall(it)
       IN  /\ it' = r.it
           /\ pc' = CASE r.ret = "value" -> "iter"
                      [] r.ret = "stop" -> "stopped"
                      [] r.ret = "raise" -> "raised"
           /\ out' = out \o r.value
    /\ UNCHANGED <<comp, timeframe_start, timeframe_end>>

\* iterating the empty list of a MONTHLY rule
ListNext ==
    /\ Iterating
    /\ it.cls = "list"
    /\ pc' = "stopped"
    /\ UNCHANGED <<comp, timeframe_start, timeframe_end, it, out>>

(***************************************************************************)
(* Inputs.  Three families of (component, timeframe):                       *)
(*  - single, DAILY and WEEKLY events around a short timeframe that begins  *)
(*    on 2024-03-30 and contains the change to summer time of 2024-03-31;   *)
(*  - YEARLY and MONTHLY events against the timeframe process_calendar      *)
(*    builds, WINDOW days to either side of "now";                          *)
(*  - the two concrete scenarios of the specification.                      *)
(***************************************************************************)
WINDOW == 180

MaxCount == 3
MaxInterval == 2
MaxBack == 9
MaxAhead == 2
MaxFrameDays == 3

Event(s, e, rr) == [DTSTART |-> s, DTEND |-> e, RRULE |-> rr]
Input(c, s, e) == [comp |-> c, timeframe_start |-> s, timeframe_end |-> e]
Rule(f, i, c, u, m, d) ==
    [present |-> TRUE, FREQ |-> f, INTERVAL |-> i, COUNT |-> c, UNTIL |-> u,
     BYMONTH |-> m, BYMONTHDAY |-> d]

\* a datetime property h hours after the datetime dt, in dt's zone
Later(dt, h) == PropDatetime(Normalize(PlusHours(dt, h)))

AnchorDay == Ymd2Ord(2024, 3, 30)

StartHours == {0, 2, 23}
Durations == {1, 30}

DaysStarts ==
    {PropDatetime(Localize(z, (AnchorDay + d) * 24 + h)) :
        z \in Zones, d \in (0 - MaxBack)..MaxAhead, h \in StartHours}
    \cup {[isdate |-> TRUE, naive |-> (AnchorDay + d) * 24, off |-> 0, tz |-> "UTC"] :
        d \in (0 - MaxBack)..MaxAhead}

DaysUntils ==
    {PropDate(2024, 3, 29),
     PropDatetime(UtcDatetime(2024, 3, 31, 2)),
     PropDatetime(ZonedDatetime(2024, 4, 9, 0, "EST"))}

Intervals == {None} \cup 1..MaxInterval

DaysRules ==
    {NoRule}
    \cup {Rule(f, i, None, NoProp, None, None) :
            f \in {"DAILY", "WEEKLY"}, i \in Intervals}
    \cup {Rule(f, i, c, NoProp, None, None) :
            f \in {"DAILY", "WEEKLY"}, i \in Intervals, c \in 1..MaxCount}
    \cup {Rule(f, i, None, u, None, None) :
            f \in {"DAILY", "WEEKLY"}, i \in Intervals, u \in DaysUntils}
    \cup {Rule(f, None, 2, u, None, None) :
            f \in {"DAILY", "WEEKLY"}, u \in DaysUntils}

\* timeframes that begin at 00:00 UTC, and one that begins at 23:00 UTC
DaysFrames ==
    {<<[naive |-> AnchorDay * 24, off |-> 0, tz |-> "UTC"],
       [naive |-> (AnchorDay + n) * 24, off |-> 0, tz |-> "UTC"]>> :
        n \in {1, MaxFrameDays}}
    \cup {<<[naive |-> (AnchorDay + 1) * 24 + 23, off |-> 0, tz |-> "UTC"],
            [naive |-> (AnchorDay + MaxFrameDays) * 24, off |-> 0, tz |-> "UTC"]>>}

DaysInputs ==
    {Input(Event(s, Later(get_datetime(s), d), rr), f[1], f[2]) :
        s \in DaysStarts, d \in Durations, rr \in DaysRules, f \in DaysFrames}

\* process_calendar: start = now - WINDOW days, end = now + WINDOW days
Frame(now) == <<PlusHours(now, 0 - WINDOW * 24), PlusHours(now, WINDOW * 24)>>

Nows ==
    {UtcDatetime(2023, 9, 1, 12), UtcDatetime(2024, 3, 1, 0),
     UtcDatetime(2024, 8, 1, 0)}

YearlyStarts ==
    {PropDatetime(UtcDatetime(2020, 2, 29, 10)),
     PropDatetime(ZonedDatetime(2020, 2, 29, 23, "EST")),
     PropDate(2021, 1, 31),
     PropDatetime(ZonedDatetime(2022, 12, 31, 23, "EST")),
     PropDatetime(ZonedDatetime(2023, 6, 15, 9, LOCAL_TZ)),
     PropDate(2024, 5, 20)}

YearlyUntils ==
    {PropDate(2022, 1, 1),
     PropDatetime(UtcDatetime(2023, 12, 31, 12)),
     PropDate(2024, 2, 10),
     PropDate(2025, 1, 1),
     PropDate(2026, 1, 1)}

ByMonths == {None, 2, 4, 12}
ByMonthDays == {None, 1, 29, 31}

\* BYMONTH and BYMONTHDAY (or the month and day of DTSTART in their place)
\* name a day of the calendar, February 29th included
ValidPair(s, m, d) ==
    LET ev == get_datetime(s)
        mm == IF m # None THEN m ELSE MonthOf(ev)
        dd == IF d # None THEN d ELSE DayOf(ev)
    IN  dd <= DaysInMonth(2024, mm)

YearlyRules ==
    {Rule("YEARLY", None, c, u, m, d) :
        c \in {None} \cup 1..MaxCount, u \in {NoProp} \cup YearlyUntils,
        m \in ByMonths, d \in ByMonthDays}
    \cup {Rule("MONTHLY", i, c, u, None, None) :
        i \in {None, 1}, c \in {None, 2}, u \in {NoProp} \cup YearlyUntils}

YearlyInputs ==
    UNION {{Input(Event(s, Later(get_datetime(s), 1), rr),
                  Frame(now)[1], Frame(now)[2]) :
                now \in Nows,
                rr \in {r \in YearlyRules : ValidPair(s, r.BYMONTH, r.BYMONTHDAY)}} :
           s \in YearlyStarts}

\* Scenario A of the specification: weekly from 2023-01-10T10:00, one hour
ScenarioA(z) ==
    Input(Event(PropDatetime(ZonedDatetime(2023, 1, 10, 10, z)),
                PropDatetime(ZonedDatetime(2023, 1, 10, 11, z)),
                Rule("WEEKLY", 1, None, NoProp, None, None)),
          UtcDatetime(2023, 2, 1, 0), UtcDatetime(2023, 2, 15, 0))

\* Scenario B of the specification: daily from 2023-06-01, COUNT=5
ScenarioB ==
    Input(Event(PropDate(2023, 6, 1), PropDate(2023, 6, 2),
                Rule("DAILY", 1, 5, NoProp, None, None)),
          UtcDatetime(2023, 6, 3, 0), UtcDatetime(2030, 1, 1, 0))

ScenarioInputs == {ScenarioA(z) : z \in Zones} \cup {ScenarioB}

\* a timeframe of more than two years, as generate_event_iterator accepts
LongFrame == <<UtcDatetime(2023, 1, 15, 0), UtcDatetime(2025, 6, 1, 0)>>

LongFrameInputs ==
    UNION {{Input(Event(s, Later(get_datetime(s), 1), rr),
                  LongFrame[1], LongFrame[2]) :
                rr \in {r \in {Rule("YEARLY", None, c, NoProp, m, None) :
                                 c \in {None, 2}, m \in {None, 4}} :
                            ValidPair(s, r.BYMONTH, r.BYMONTHDAY)}} :
           s \in YearlyStarts}

Inputs == DaysInputs \cup YearlyInputs \cup ScenarioInputs \cup LongFrameInputs

Init ==
    /\ \E in \in Inputs :
        /\ comp = in.comp
        /\ timeframe_start = in.timeframe_start
        /\ timeframe_end = in.timeframe_end
    /\ pc = "new"
    /\ it = NoIter
    /\ out = <<>>

Next ==
    \/ generate_event_iterator
    \/ SingleNext
    \/ next_until
    \/ next_count
    \/ YearlyNext
    \/ ListNext

Spec == Init /\ [][Next]_vars

(***************************************************************************)
(* The iterator classes constructed directly, without the dict literal of   *)
(* generate_event_iterator: one class is built for the component and then   *)
(* consumed.                                                                *)
(***************************************************************************)
\* EventRecurDaysIter(days, comp, timeframe_start, timeframe_end)
ConstructDays ==
    /\ pc = "new"
    /\ comp.RRULE.present
    /\ \E days \in {1, 7} :
        LET d == EventRecurDaysIter(days, comp, timeframe_start, timeframe_end)
        IN  IF d.raised
            THEN /\ pc' = "raised"
                 /\ it' = NoIter
            ELSE /\ pc' = "iter"
                 /\ it' = d
    /\ UNCHANGED <<comp, timeframe_start, timeframe_end, out>>

\* EventRecurYearlyIter(comp, timeframe_start, timeframe_end)
ConstructYearly ==
    /\ pc = "new"
    /\ comp.RRULE.present
    /\ LET y == EventRecurYearlyIter(comp, timeframe_start, timeframe_end)
       IN  IF y.raised
           THEN /\ pc' = "raised"
                /\ it' = NoIter
           ELSE /\ pc' = "iter"
                /\ it' = y
    /\ UNCHANGED <<comp, timeframe_start, timeframe_end, out>>

NextIter ==
    \/ ConstructDays
    \/ ConstructYearly
    \/ next_until
    \/ next_count
    \/ YearlyNext

SpecIter == Init /\ [][NextIter]_vars

(***************************************************************************)
(* Properties                                                              *)
(***************************************************************************)
EvStart == get_datetime(comp.DTSTART)
EvEnd == get_datetime(comp.DTEND)

IsSingle == ~comp.RRULE.present
IsDaysRule == comp.RRULE.present /\ comp.RRULE.FREQ \in {"DAILY", "WEEKLY"}
IsYearlyRule == comp.RRULE.present /\ comp.RRULE.FREQ = "YEARLY"
HasCount == comp.RRULE.COUNT # None
HasUntil == comp.RRULE.UNTIL # NoProp

\* the step of a DAILY or WEEKLY rule, in days
StepDays ==
    (IF comp.RRULE.FREQ = "WEEKLY" THEN 7 ELSE 1)
        * (IF comp.RRULE.INTERVAL # None THEN comp.RRULE.INTERVAL ELSE 1)

UntilUtc == Utc(get_datetime(comp.RRULE.UNTIL))

Min(a, b) == IF a < b THEN a ELSE b

\* the interval [s, e) meets the timeframe
Intersects(s, e) == Utc(s) < Utc(timeframe_end) /\ Utc(e) > Utc(timeframe_start)

InScenarioA == \E z \in Zones :
    Input(comp, timeframe_start, timeframe_end) = ScenarioA(z)
InScenarioB == Input(comp, timeframe_start, timeframe_end) = ScenarioB

\* the (local) calendar day an occurrence starts on
StartsOn(o, y, m, d) == ToOrdinal(o.start) = Ymd2Ord(y, m, d)

\* C3: an event without a rule yields its own (start, end, 0) once, and it
\* yields it iff start < timeframe_end and end > timeframe_start: nothing for
\* an event that ends at timeframe_start or starts at timeframe_end.
C3_SingleIffIntersects ==
    IsSingle =>
        /\ Len(out) <= 1
        /\ \A i \in 1..Len(out) : out[i] = Occurrence(EvStart, EvEnd, 0)
        /\ Len(out) = 1 => Intersects(EvStart, EvEnd)
        /\ (pc = "stopped" /\ Intersects(EvStart, EvEnd)) => Len(out) = 1
        /\ (Utc(EvEnd) = Utc(timeframe_start) \/ Utc(EvStart) = Utc(timeframe_end))
              => out = <<>>

C3_Witness ==
    /\ IsSingle
    /\ pc = "stopped"
    /\ Len(out) = 1
    /\ Utc(EvStart) < Utc(timeframe_start)

\* C4: every occurrence of a DAILY/WEEKLY rule with UNTIL starts within
\* [timeframe_start, min(until, timeframe_end)], and none is returned when
\* until < timeframe_start.
C4_UntilBounds ==
    (IsDaysRule /\ HasUntil /\ ~HasCount) =>
        /\ \A i \in 1..Len(out) :
              /\ Utc(timeframe_start) <= Utc(out[i].start)
              /\ Utc(out[i].start) <= Min(UntilUtc, Utc(timeframe_end))
        /\ UntilUtc < Utc(timeframe_start) => out = <<>>

C4_Witness ==
    /\ IsDaysRule /\ HasUntil /\ ~HasCount
    /\ Utc(EvStart) < Utc(timeframe_start)
    /\ UntilUtc < Utc(timeframe_end)
    /\ pc = "stopped"
    /\ Len(out) >= 2

\* C7 (as stated): scenario B yields exactly two occurrences, those of
\* 2023-06-04 and 2023-06-05.
C7_ScenarioB_Stated ==
    (InScenarioB /\ pc = "stopped") =>
        /\ Len(out) = 2
        /\ StartsOn(out[1], 2023, 6, 4)
        /\ StartsOn(out[2], 2023, 6, 5)

\* C8 (as stated): scenario A yields exactly one occurrence, that of
\* 2023-02-14.
C8_ScenarioA_Stated ==
    (InScenarioA /\ pc = "stopped") =>
        /\ Len(out) = 1
        /\ StartsOn(out[1], 2023, 2, 14)

\* C8 (amended): scenario A yields exactly two occurrences, those of
\* 2023-02-07 and 2023-02-14, in whatever zone the event is.
C8_ScenarioA ==
    InScenarioA =>
        /\ Len(out) <= 2
        /\ Len(out) >= 1 => StartsOn(out[1], 2023, 2, 7) /\ HourOf(out[1].start) = 10
        /\ Len(out) >= 2 => StartsOn(out[2], 2023, 2, 14) /\ HourOf(out[2].start) = 10
        /\ pc = "stopped" => Len(out) = 2

C8_Witness == InScenarioA /\ pc = "stopped" /\ Len(out) = 2

(***************************************************************************)
(* The occurrences a rule denotes, counted from the event's own start:      *)
(* occurrence j of a DAILY/WEEKLY rule starts j steps of wall-clock time    *)
(* after DTSTART; a YEARLY rule has one occurrence on BYMONTH/BYMONTHDAY    *)
(* of every year in which that day exists, none before DTSTART.  COUNT      *)
(* keeps the first COUNT steps (years, counted from the year of DTSTART),   *)
(* UNTIL the occurrences that start by UNTIL.                               *)
(***************************************************************************)
Duration == Utc(EvEnd) - Utc(EvStart)

OccEnd(s) == Normalize(PlusHours(s, Duration))

DaysOccStart(j) == Localize(EvStart.tz, EvStart.naive + j * StepDays * 24)

\* the step index of a returned occurrence, counted from DTSTART
StepIndex(o) == (o.start.naive - EvStart.naive) \div (StepDays * 24)

DaysLastIndex ==
    IF HasCount THEN comp.RRULE.COUNT - 1
    ELSE ((Utc(timeframe_end) - Utc(EvStart)) \div (StepDays * 24)) + 1

DaysOccurrences ==
    {DaysOccStart(j) : j \in {k \in 0..DaysLastIndex :
                                HasUntil => Utc(DaysOccStart(k)) <= UntilUtc}}

RuleMonth == IF comp.RRULE.BYMONTH # None THEN comp.RRULE.BYMONTH ELSE MonthOf(EvStart)
RuleDay ==
    IF comp.RRULE.BYMONTHDAY # None THEN comp.RRULE.BYMONTHDAY ELSE DayOf(EvStart)

YearlyOccStart(y) == Replace(EvStart, y, RuleMonth, RuleDay)

YearlyOccYears ==
    LET all == {y \in YearOf(EvStart)..(YearOf(timeframe_end) + 1) :
                    /\ ReplaceOk(y, RuleMonth, RuleDay)
                    /\ Utc(YearlyOccStart(y)) >= Utc(EvStart)}
    IN  {y \in all :
            /\ HasCount => y - YearOf(EvStart) < comp.RRULE.COUNT
            /\ HasUntil => Utc(YearlyOccStart(y)) <= UntilUtc}

Occurrences ==
    IF IsSingle THEN {EvStart}
    ELSE IF IsDaysRule THEN DaysOccurrences
    ELSE IF IsYearlyRule THEN {YearlyOccStart(y) : y \in YearlyOccYears}
    ELSE {}

Returned(s) == \E i \in 1..Len(out) : Utc(out[i].start) = Utc(s)

\* C1 (as stated): when the iterator is exhausted it has returned every
\* occurrence of the event whose interval meets the timeframe, those that
\* start before timeframe_start and end after it included.
C1_Complete_Stated ==
    pc = "stopped" =>
        \A s \in Occurrences : Intersects(s, OccEnd(s)) => Returned(s)

\* C2 (as stated): every returned occurrence ends after timeframe_start and
\* starts before timeframe_end.
C2_WindowFilter_Stated ==
    \A i \in 1..Len(out) : Intersects(out[i].start, out[i].end)

\* C5 (as stated): a DAILY/WEEKLY rule with COUNT = n whose DTSTART is not
\* before timeframe_start yields exactly n occurrences when the n-th starts
\* before timeframe_end and fewer than n otherwise.
C5_CountClipped_Stated ==
    (IsDaysRule /\ HasCount /\ ~HasUntil /\ pc = "stopped"
        /\ Utc(EvStart) >= Utc(timeframe_start)) =>
        IF Utc(DaysOccStart(comp.RRULE.COUNT - 1)) < Utc(timeframe_end)
        THEN Len(out) = comp.RRULE.COUNT
        ELSE Len(out) < comp.RRULE.COUNT

\* C6 (as stated): a DAILY/WEEKLY rule with COUNT = n whose DTSTART precedes
\* timeframe_start returns no occurrence of step index >= n, and at most
\* n - j occurrences when the first returned one has step index j.
C6_CountFromFirst_Stated ==
    (IsDaysRule /\ HasCount /\ ~HasUntil
        /\ Utc(EvStart) < Utc(timeframe_start)) =>
        /\ \A i \in 1..Len(out) : StepIndex(out[i]) < comp.RRULE.COUNT
        /\ Len(out) >= 1 => Len(out) <= comp.RRULE.COUNT - StepIndex(out[1])

\* EventRecurDaysIter.__init__ reaches its call of advance_just_before
AdvanceCalled ==
    /\ pc # "new"
    /\ comp.RRULE.present
    /\ ~(HasCount /\ HasUntil)
    /\ HasUntil => UntilUtc >= Utc(timeframe_start)
    /\ Utc(EvStart) < Utc(timeframe_start)

RuleInterval == IF comp.RRULE.INTERVAL # None THEN comp.RRULE.INTERVAL ELSE 1

\* C9 (as stated): each call advance_just_before(event_start, window_start,
\* step_days) of the constructors returns (t, k) with t <= window_start,
\* t = event_start + k * step_days days and
\* k = floor((ordinal(window_start) - ordinal(event_start) - 1) / step_days).
C9_AdvanceJustBefore_Stated ==
    AdvanceCalled =>
        \A days \in {1, 7} :
            LET step_days == days * RuleInterval
                r == advance_just_before(EvStart, timeframe_start, step_days)
            IN  /\ Utc(r.dt) <= Utc(timeframe_start)
                /\ r.dt.naive = EvStart.naive + r.counts * step_days * 24
                /\ r.counts = (ToOrdinal(timeframe_start) - ToOrdinal(EvStart) - 1)
                                 \div step_days

\* C10 (as stated): for a YEARLY rule whose BYMONTH/BYMONTHDAY name a day
\* that exists in every year, no next() call fails.
C10_ReplaceNeverFails_Stated ==
    (IsYearlyRule /\ ~(HasCount /\ HasUntil)
        /\ RuleDay <= DaysInMonth(2023, RuleMonth)) => pc # "raised"

(***************************************************************************)
(* The candidate years of a YEARLY rule and the starts it is to return,     *)
(* as the specification describes them.                                     *)
(***************************************************************************)
\* BYMONTH/BYMONTHDAY (or DTSTART's month and day) exist in every year
PairInEveryYear == RuleDay <= DaysInMonth(2023, RuleMonth)

Malformed == comp.RRULE.present /\ HasCount /\ HasUntil

\* the upper bound, a UTC instant
YearlyUpper ==
    IF HasUntil THEN Min(UntilUtc, Utc(timeframe_end)) ELSE Utc(timeframe_end)

CandidateYears ==
    IF YearlyUpper < Utc(timeframe_start) THEN <<>>
    ELSE IF HasCount
    THEN DelFrom(Range(YearOf(EvStart), OrdYear(YearlyUpper \div 24) + 1),
                 comp.RRULE.COUNT)
    ELSE Range(YearOf(timeframe_start), OrdYear(YearlyUpper \div 24) + 1)

\* the starts due from candidate i on: those >= timeframe_start, up to the
\* first candidate beyond the upper bound
RECURSIVE DueFrom(_)
DueFrom(i) ==
    IF i > Len(CandidateYears) THEN <<>>
    ELSE LET s == Utc(YearlyOccStart(CandidateYears[i]))
         IN  IF s > YearlyUpper THEN <<>>
             ELSE IF s < Utc(timeframe_start) THEN DueFrom(i + 1)
             ELSE <<s>> \o DueFrom(i + 1)

OutStarts == [i \in 1..Len(out) |-> Utc(out[i].start)]

\* C11 (as stated): the YEARLY iterator holds the candidate years
\* timeframe_start.year .. upper.year (the first COUNT years from DTSTART's
\* year on under COUNT), and by the time it ends it has returned exactly the
\* candidates that start at or after timeframe_start, in order, up to the
\* first one beyond the upper bound.
C11_YearlyCandidates_Stated ==
    (IsYearlyRule /\ ~Malformed /\ PairInEveryYear /\ pc # "new") =>
        /\ it.years = CandidateYears
        /\ pc \in {"stopped", "raised"} => OutStarts = DueFrom(1)

\* C12 (as stated): constructing a DAILY/WEEKLY or a YEARLY iterator for a
\* rule that carries both COUNT and UNTIL raises in the constructor, whatever
\* the component and the timeframe, and no occurrence is returned.
C12_MalformedRule_Stated ==
    (Malformed /\ pc # "new") => (pc = "raised" /\ it = NoIter /\ out = <<>>)

\* C13: consecutive occurrences of one expansion never go back in time; the
\* starts of a DAILY or WEEKLY rule are exactly StepDays days of local
\* wall-clock time apart, and the years of a YEARLY rule strictly increase.
C13_EmissionOrder ==
    \A i \in 1..(Len(out) - 1) :
        /\ Utc(out[i + 1].start) >= Utc(out[i].start)
        /\ IsDaysRule =>
            out[i + 1].start.naive - out[i].start.naive = StepDays * 24
        /\ IsYearlyRule => YearOf(out[i + 1].start) > YearOf(out[i].start)

\* two consecutive DAILY/WEEKLY occurrences on either side of a change of
\* the UTC offset: the elapsed time between them is not StepDays * 24 hours
C13_Witness ==
    /\ IsDaysRule
    /\ \E i \in 1..(Len(out) - 1) :
        /\ out[i + 1].start.off # out[i].start.off
        /\ Utc(out[i + 1].start) - Utc(out[i].start) # StepDays * 24

\* C14: every returned occurrence lasts as long as the component,
\* DTEND - DTSTART, and its third field is 0 exactly when the component has
\* no RRULE (EventSingleIter), 1 otherwise.
C14_DurationAndFlag ==
    \A i \in 1..Len(out) :
        /\ Utc(out[i].end) - Utc(out[i].start) = Duration
        /\ out[i].rec = 0 <=> IsSingle

\* a recurring occurrence whose end lies beyond a change of the UTC offset,
\* so that its wall-clock length is not the duration
C14_Witness ==
    \E i \in 1..Len(out) :
        /\ out[i].rec = 1
        /\ out[i].end.off # out[i].start.off
        /\ out[i].end.naive - out[i].start.naive # Duration

\* the most occurrences a timeframe can hold when consecutive starts are at
\* least 23 hours apart
FrameCapacity == (Utc(timeframe_end) - Utc(timeframe_start)) \div 23 + 1

\* C15 (as stated): an expansion returns finitely many occurrences: at most
\* COUNT of them under COUNT, and no more than the timeframe can hold under
\* UNTIL or the end of the timeframe.
C15_Bounded_Stated ==
    (comp.RRULE.present /\ pc # "new") =>
        IF HasCount
        THEN Len(out) <= comp.RRULE.COUNT
        ELSE Len(out) <= FrameCapacity

\* C16 (as stated): once a next() has raised StopIteration, every later
\* next() raises StopIteration too and returns nothing; an event without a
\* rule returns at most one occurrence.
C16_NonRestartable_Stated ==
    [][/\ pc = "stopped" => (pc' = "stopped" /\ out' = out)
       /\ IsSingle => Len(out') <= 1]_vars

\* C17 (as stated): for a MONTHLY rule, whatever its other fields,
\* generate_event_iterator returns the empty list and raises nothing.
C17_MonthlyEmpty_Stated ==
    (comp.RRULE.present /\ comp.RRULE.FREQ = "MONTHLY" /\ pc # "new") =>
        (pc # "raised" /\ it = EmptyList /\ out = <<>>)

(***************************************************************************)
(* The jump of advance_just_before and the loop that follows it, for the    *)
(* DAILY or WEEKLY rule of the component.                                   *)
(***************************************************************************)
DaysAdvanceCalled == AdvanceCalled /\ IsDaysRule

Jump == advance_just_before(EvStart, timeframe_start, StepDays)

\* the number of times the while loop of __init__ steps from current
RECURSIVE NudgeSteps(_)
NudgeSteps(current) ==
    IF DtLt(current, timeframe_start)
    THEN 1 + NudgeSteps(add_delta_dst(current, StepDays * 24))
    ELSE 0

\* __init__ has run its while loop and next() has not been called yet
LoopDone ==
    /\ pc = "iter"
    /\ out = <<>>
    /\ it.cls = "days"
    /\ ~(it.is_count /\ it.count < 1)

C19_NotBeforeStart_Stated ==
    \A i \in 1..Len(out) : Utc(out[i].start) >= Utc(EvStart)

\* C20 (as stated): whenever DTSTART is before timeframe_start, the same
\* ordinal day included, advance_just_before returns counts >= 0 and a time
\* >= DTSTART, so under COUNT the remaining count never exceeds COUNT and at
\* most COUNT occurrences are returned.
C20_CountNotRaised_Stated ==
    (DaysAdvanceCalled /\ it.cls = "days") =>
        /\ Jump.counts >= 0
        /\ Utc(Jump.dt) >= Utc(EvStart)
        /\ HasCount =>
            /\ it.count <= comp.RRULE.COUNT
            /\ Len(out) <= comp.RRULE.COUNT

====
